---- MODULE Spec2Model ----
(***************************************************************************)
(* Model of the lcd_ui / touch_ui library (src/src/lcd_ui.c,               *)
(* src/src/touch_ui.c): the widget registry, the hit-test and dispatch     *)
(* engine, the default slider handler and the touch signal normalizer.     *)
(*                                                                         *)
(* User callbacks (on_touch, slider_update_callback) and the display       *)
(* driver are external code: an invocation is recorded in the log `calls`  *)
(* and has no other effect on the modelled state.                          *)
(***************************************************************************)
EXTENDS Integers, Sequences, FiniteSets, TLC

----------------------------------------------------------------------------
(* Integer widths *)

U16 == 65536
U8 == 256

(* Enumerations of lcd_ui.h *)
LCD_UI_ALIGN_LEFT == 0
LCD_UI_ALIGN_CENTER == 1
LCD_UI_ALIGN_RIGHT == 2

LCD_UI_WIDGET_BUTTON == 0
LCD_UI_WIDGET_SLIDER == 1
LCD_UI_WIDGET_PROGRESS_BAR == 2
LCD_UI_WIDGET_LABEL == 3

NULL == 0
\* the address of the caller's context object
CTX == 1

----------------------------------------------------------------------------
(* Bounds of the model *)

\* capacity handed to lcd_ui_init (README: MAX_WIDGETS)
Capacity == 2

\* largest timestamp a touch sample carries
MaxTime == 1

----------------------------------------------------------------------------
(* The caller-allocated widgets.  A widget reference is an index into this *)
(* pool, NULL is 0.  The fields below are the ones the caller sets and the *)
(* library never writes.                                                   *)

WidgetDef ==
  <<
    \* 1: button with a touch callback;      box x 4..35,  y 4..25
    [type |-> LCD_UI_WIDGET_BUTTON, x |-> 10, y |-> 10, width |-> 20, height |-> 10,
     on_touch |-> TRUE, user_data |-> NULL, slider_update_callback |-> FALSE],
    \* 2: slider, default handler, linked to progress bar 4; box x 18..61, y 18..31
    [type |-> LCD_UI_WIDGET_SLIDER, x |-> 20, y |-> 20, width |-> 40, height |-> 10,
     on_touch |-> FALSE, user_data |-> 4, slider_update_callback |-> TRUE],
    \* 3: slider with a custom touch callback, user data pointing at progress
    \* bar 4;                                box x 18..61, y 38..51
    [type |-> LCD_UI_WIDGET_SLIDER, x |-> 20, y |-> 40, width |-> 40, height |-> 10,
     on_touch |-> TRUE, user_data |-> 4, slider_update_callback |-> TRUE],
    \* 4: progress bar;                       box x 0..31,  y 0..9
    [type |-> LCD_UI_WIDGET_PROGRESS_BAR, x |-> 0, y |-> 0, width |-> 30, height |-> 8,
     on_touch |-> TRUE, user_data |-> NULL, slider_update_callback |-> FALSE],
    \* 5: label;                              box x 48..71, y 8..21
    [type |-> LCD_UI_WIDGET_LABEL, x |-> 50, y |-> 10, width |-> 20, height |-> 10,
     on_touch |-> TRUE, user_data |-> NULL, slider_update_callback |-> FALSE],
    \* 6: slider as wide as its knob, default handler; box x 0..11, y 58..71
    [type |-> LCD_UI_WIDGET_SLIDER, x |-> 0, y |-> 60, width |-> 10, height |-> 10,
     on_touch |-> FALSE, user_data |-> NULL, slider_update_callback |-> FALSE]
  >>

Pool == 1..Len(WidgetDef)

\* text_align as the caller set it; widget 5 carries a value outside the enum
InitAlign == [w \in Pool |-> IF w = 5 THEN 3 ELSE LCD_UI_ALIGN_LEFT]

\* progress_percent / slider_value as the caller set them
InitPercent == [w \in Pool |-> IF w = 4 THEN 100 ELSE 0]
InitValue == [w \in Pool |-> 0]

\* the samples the touch driver reports to the normalizer
SampleXs == {0, 5}
SampleYs == {0, 7}

\* free-standing slider geometries and touch x positions for the default
\* slider handler; 65500 + 100 runs past the 16-bit coordinate range
SliderXPos == {0, 7, 65500}
SliderWidths == {10, 20, 21, 100}
SliderHeights == {9, 20, 21}
SliderTouchXs == {0, 4, 5, 6, 10, 11, 17, 50, 54, 90, 100, 65504, 65510, 65520, 65535}

\* the touch points the driver reports
TouchPoints ==
  { <<20, 20>>,     \* inside button 1 and slider 2
    <<10, 5>>,      \* inside button 1 and progress bar 4
    <<40, 25>>,     \* inside slider 2
    <<60, 15>>,     \* inside label 5
    <<30, 45>>,     \* inside slider 3
    <<3, 62>>,      \* inside slider 6
    <<100, 100>> }  \* outside every widget

----------------------------------------------------------------------------
VARIABLES
  \* lcd_ui_context_t
  widgets,            \* slot index -> widget reference
  widget_capacity,
  widget_count,
  active_widget,
  touch_active,
  \* lcd_ui_widget_t fields the library writes
  slider_value,
  progress_percent,
  text_align,
  \* the program stopped in a fault (NULL / out-of-bounds access, division trap)
  faulted,
  \* the call made last and the callbacks it invoked, in order
  last_op,
  calls,
  \* touch_ui_context_t.internal_state
  last_press_state,
  last_x_position,
  last_y_position,
  last_press_timestamp_value,
  \* the sample passed to touch_ui_process_input last and the event it returned
  sample,
  event_result,
  \* default_slider_touch_handler applied to a free-standing slider
  sl_geom,
  sl_prev,
  sl_cur,
  sl_percent,         \* progress_percent of the progress bar linked to it
  \* the library function called last, its context argument (NULL or CTX)
  \* and its widget argument
  last_call,
  \* two tasks on one context: the task inside lcd_ui_handle_touch
  pc_touch,           \* the statement it executes next
  t_args,             \* its arguments x, y, is_pressed
  t_i,                \* the loop index i of the hit test
  t_w,                \* the local w = ctx->widgets[i]
  \* the task inside lcd_ui_add_widget, lcd_ui_clear_widgets or lcd_ui_render
  pc_reg,             \* the statement it executes next
  r_op,               \* the function it runs and its widget argument
  r_i,                \* the loop index i of lcd_ui_clear_widgets / lcd_ui_render
  r_n,                \* the widget_count value read by lcd_ui_add_widget
  null_deref,         \* the hit test has dereferenced a NULL slot
  round_start,        \* the context when the two calls in progress were made
  \* one iteration of the hit-test loop on a free-standing widget
  hb_widget,          \* its type, x, y, width, height
  hb_point,           \* the touch position
  hb_hit,             \* the outcome of the test: "none" before the first one
  \* the last iteration of the touch task's poll loop: the outcome of
  \* touch_ui_read_state ("none" before the first iteration), whether the
  \* sample went on to lcd_ui_handle_touch, and the iteration count modulo 2
  poll,
  \* the widgets lcd_ui_add_widget has accepted since the registry was last
  \* emptied, in the order of the calls
  added,
  \* the last pressed or released event touch_ui_process_input returned to
  \* the normalizer's own caller: "up" after released and at the start,
  \* "down" after pressed
  ev_phase

uiVars == <<widgets, widget_capacity, widget_count, active_widget, touch_active,
            slider_value, progress_percent, text_align, faulted, last_op, calls>>
touchVars == <<last_press_state, last_x_position, last_y_position,
               last_press_timestamp_value, sample, event_result>>
sliderVars == <<sl_geom, sl_prev, sl_cur, sl_percent>>
argVars == <<last_call>>
touchTaskVars == <<pc_touch, t_args, t_i, t_w>>
regTaskVars == <<pc_reg, r_op, r_i, r_n>>
concVars == <<touchTaskVars, regTaskVars, null_deref, round_start>>
hitVars == <<hb_widget, hb_point, hb_hit>>
pollVars == <<poll>>
regVars == <<added>>
normVars == <<ev_phase>>
auxVars == <<argVars, concVars, hitVars, pollVars, regVars, normVars>>
vars == <<uiVars, touchVars, sliderVars, auxVars>>

----------------------------------------------------------------------------
(* default_slider_touch_handler: the value computation.                    *)

Sample(x, y, p, t) == [x |-> x, y |-> y, is_pressed |-> p, timestamp |-> t]
Event(e, x, y, t) == [event_type |-> e, x_position |-> x, y_position |-> y,
                      timestamp_value |-> t]
Geom(x, width, height) == [x |-> x, width |-> width, height |-> height]
\* the handler has not run yet
NotApplied == [x |-> -1, value |-> 0]

LibCall(fn, ctx, w) == [fn |-> fn, ctx |-> ctx, w |-> w]
Call(cb, w, a, b) == [cb |-> cb, w |-> w, a |-> a, b |-> b]
\* a call and the session / fill level it found
Op(op, w, x, y, p) ==
  [op |-> op, w |-> w, x |-> x, y |-> y, pressed |-> p,
   was_active |-> touch_active, was_widget |-> active_widget,
   was_count |-> widget_count]

SliderMinX_FullKnob(wx, height) == (wx + height) % U16
SliderMinX(wx, height) == (wx + (height \div 2)) % U16
SliderMaxX(wx, width, height) == (wx + width - (height \div 2)) % U16
SliderRangeX(wx, width, height) ==
  (SliderMaxX(wx, width, height) - SliderMinX(wx, height)) % U16

SliderClampedX_NoUpper(wx, width, height, x) ==
  LET min_x == SliderMinX(wx, height)
  IN  IF x < min_x THEN min_x ELSE x

SliderClampedX(wx, width, height, x) ==
  LET min_x == SliderMinX(wx, height)
      max_x == SliderMaxX(wx, width, height)
  IN  IF x < min_x THEN min_x ELSE IF x > max_x THEN max_x ELSE x

SliderRelativeX(wx, width, height, x) ==
  (SliderClampedX(wx, width, height, x) - SliderMinX(wx, height)) % U16

\* The outcomes of `new_slider_value = (relative_x * 100U) / range_x`.
\* A zero range_x is undefined behaviour: the division yields 0 (Cortex-M
\* UDIV with DIV_0_TRP clear) or traps (-1 stands for the trap).
\* relative_x * 100U is a 32-bit product of a 16-bit value: it cannot wrap.
SliderNewValues(wx, width, height, x) ==
  LET range_x == SliderRangeX(wx, width, height)
      relative_x == SliderRelativeX(wx, width, height, x)
  IN  IF range_x = 0
      THEN {0, -1}
      ELSE {(relative_x * 100) \div range_x}

----------------------------------------------------------------------------
(* lcd_ui_handle_touch: the hit test.                                      *)

\* the `switch (w->type)` that sets margin
MarginOf(type, height) ==
  CASE type = LCD_UI_WIDGET_BUTTON -> 6
    [] type = LCD_UI_WIDGET_SLIDER -> height \div 5
    [] OTHER -> 2

\* `(w->x > margin) ? (w->x - margin) : 0U`
\* the subtraction done without the test, in 16 bits
BoxLo_NoClamp(pos, margin) == (pos - margin) % U16
BoxLo(pos, margin) == IF pos > margin THEN pos - margin ELSE 0
\* `uint16_t x1 = w->x + w->width + margin;`
BoxHi(pos, size, margin) == (pos + size + margin) % U16

\* the test `(x >= x0) && (x < x1) && (y >= y0) && (y < y1)` on a widget
\* with the fields of g
HitBox(g, x, y) ==
  LET margin == MarginOf(g.type, g.height)
  IN  /\ x >= BoxLo(g.x, margin) /\ x < BoxHi(g.x, g.width, margin)
      /\ y >= BoxLo(g.y, margin) /\ y < BoxHi(g.y, g.height, margin)

Margin(w) == MarginOf(WidgetDef[w].type, WidgetDef[w].height)

HitX0(w) == BoxLo(WidgetDef[w].x, Margin(w))
HitY0(w) == BoxLo(WidgetDef[w].y, Margin(w))
HitX1(w) == BoxHi(WidgetDef[w].x, WidgetDef[w].width, Margin(w))
HitY1(w) == BoxHi(WidgetDef[w].y, WidgetDef[w].height, Margin(w))

Hit(w, x, y) ==
  /\ x >= HitX0(w) /\ x < HitX1(w)
  /\ y >= HitY0(w) /\ y < HitY1(w)

\* The loop `for (i = 0; i < widget_count; ++i)` from index i on: the first
\* widget hit, NULL when the loop ends without a hit, -1 when the loop
\* dereferences a NULL slot.
RECURSIVE HitLoop_Last(_, _, _, _, _)
HitLoop_Last(slots, count, i, x, y) ==
  IF i >= count THEN NULL
  ELSE IF slots[i] = NULL THEN -1
  ELSE LET rest == HitLoop_Last(slots, count, i + 1, x, y)
       IN  IF rest # NULL THEN rest
           ELSE IF Hit(slots[i], x, y) THEN slots[i] ELSE NULL

RECURSIVE HitLoop(_, _, _, _, _)
HitLoop(slots, count, i, x, y) ==
  IF i >= count THEN NULL
  ELSE IF slots[i] = NULL THEN -1
  ELSE IF Hit(slots[i], x, y) THEN slots[i]
  ELSE HitLoop(slots, count, i + 1, x, y)

----------------------------------------------------------------------------
\* the context after lcd_ui_init on a zero-initialised static buffer, and
\* the widgets as the caller set them up
InitUi ==
  /\ widgets = [i \in 0..(Capacity - 1) |-> NULL]
  /\ widget_capacity = Capacity
  /\ widget_count = 0
  /\ active_widget = NULL
  /\ touch_active = 0
  /\ slider_value = InitValue
  /\ progress_percent = InitPercent
  /\ text_align = InitAlign
  /\ faulted = FALSE
  /\ last_op = Op("init", NULL, 0, 0, FALSE)
  /\ calls = <<>>

\* the normalizer state after touch_ui_init
InitTouch ==
  /\ last_press_state = FALSE
  /\ last_x_position = 0
  /\ last_y_position = 0
  /\ last_press_timestamp_value = 0
  /\ sample = Sample(0, 0, FALSE, 0)
  /\ event_result = Event("touch_ui_event_none", 0, 0, 0)

\* the registry and touch-session fields of the context
Ctx ==
  [widgets |-> widgets, widget_count |-> widget_count,
   touch_active |-> touch_active, active_widget |-> active_widget]

TouchArgs(x, y, is_pressed) == [x |-> x, y |-> y, is_pressed |-> is_pressed]
RegOp(fn, w) == [fn |-> fn, w |-> w]

Box(type, x, y, width, height) ==
  [type |-> type, x |-> x, y |-> y, width |-> width, height |-> height]

InitAux ==
  /\ last_call = LibCall("lcd_ui_init", CTX, NULL)
  \* no call is in progress in either task
  /\ pc_touch = "t_return"
  /\ t_args = TouchArgs(0, 0, FALSE)
  /\ t_i = 0
  /\ t_w = NULL
  /\ pc_reg = "r_return"
  /\ r_op = RegOp("lcd_ui_render", NULL)
  /\ r_i = 0
  /\ r_n = 0
  /\ null_deref = FALSE
  /\ round_start = Ctx
  /\ added = <<>>
  /\ ev_phase = "up"

PollRead(read, forwarded, tick) ==
  [read |-> read, forwarded |-> forwarded, tick |-> tick]

\* no hit test made yet, the poll loop not entered yet
InitHit ==
  /\ poll = PollRead("none", FALSE, 0)
  /\ hb_widget = Box(LCD_UI_WIDGET_LABEL, 0, 0, 10, 9)
  /\ hb_point = <<0, 0>>
  /\ hb_hit = "none"

Init ==
  /\ InitUi
  /\ InitTouch
  /\ InitAux
  /\ InitHit
  /\ sl_geom = Geom(0, 100, 20)
  /\ sl_prev = NotApplied
  /\ sl_cur = NotApplied
  /\ sl_percent = 100

----------------
(* Widget registry *)

\* lcd_ui_init(ctx, driver, widget_buffer, capacity) called again on the
\* context with the same buffer: the buffer's slots are not written
lcd_ui_init ==
  /\ ~faulted
  /\ widget_capacity' = Capacity
  /\ widget_count' = 0
  /\ active_widget' = NULL
  /\ touch_active' = 0
  /\ last_op' = Op("init", NULL, 0, 0, FALSE)
  /\ calls' = <<>>
  /\ UNCHANGED <<widgets, slider_value, progress_percent, text_align, faulted>>
  /\ UNCHANGED <<touchVars, sliderVars>>

\* the loop `for (i = 0; i < widget_capacity; ++i) widgets[i] = NULL`
ClearedSlots_Stale(slots) == slots
ClearedSlots(slots) ==
  [i \in DOMAIN slots |-> IF i < widget_capacity THEN NULL ELSE slots[i]]

lcd_ui_clear_widgets ==
  /\ ~faulted
  /\ widget_count' = 0
  /\ widgets' = ClearedSlots(widgets)
  /\ last_op' = Op("clear", NULL, 0, 0, FALSE)
  /\ calls' = <<>>
  /\ UNCHANGED <<widget_capacity, active_widget, touch_active, slider_value,
                 progress_percent, text_align, faulted>>
  /\ UNCHANGED <<touchVars, sliderVars>>

lcd_ui_reset_screen ==
  /\ ~faulted
  /\ widget_count' = 0
  /\ widgets' = ClearedSlots(widgets)
  /\ last_op' = Op("reset", NULL, 0, 0, FALSE)
  /\ calls' = <<>>
  /\ UNCHANGED <<widget_capacity, active_widget, touch_active, slider_value,
                 progress_percent, text_align, faulted>>
  /\ UNCHANGED <<touchVars, sliderVars>>

\* `ctx->widget_count++` (uint8_t)
\* the increment left out
AddedCount_Stay(n) == n
AddedCount(n) == (n + 1) % U8

\* `widget_count >= widget_capacity`: the add is rejected
AddRejected_OffByOne(w) == w = NULL \/ widget_count > widget_capacity
AddRejected(w) == w = NULL \/ widget_count >= widget_capacity

\* The widgets whose text_align the statement
\*   ctx->widgets[ctx->widget_count]->text_align = LCD_UI_ALIGN_LEFT
\* can reach once widget_count has been incremented to n: the widget in slot
\* n when the slot holds one; nothing (NULL, the write lands outside the
\* widgets) or a fault when the slot is NULL; and, when n is past the buffer,
\* whatever the memory behind the buffer holds: nothing, a fault, or any
\* widget.  -1 stands for the fault, NULL for a write outside the widgets.
\* the index of that statement: widget_count as the store has left it
AlignSlot(count) == count

AlignTargets(slots, n) ==
  IF n < widget_capacity
  THEN IF slots[n] = NULL THEN {NULL, -1} ELSE {slots[n]}
  ELSE {NULL, -1} \cup Pool

lcd_ui_add_widget(w) ==
  /\ ~faulted
  /\ last_op' = Op("add", w, 0, 0, FALSE)
  /\ calls' = <<>>
  /\ IF AddRejected(w)
     THEN UNCHANGED <<widgets, widget_count, text_align, faulted>>
     ELSE /\ widgets' = [widgets EXCEPT ![widget_count] = w]
          /\ widget_count' = AddedCount(widget_count)
          /\ IF text_align[w] > LCD_UI_ALIGN_RIGHT
             THEN \E t \in AlignTargets(widgets', AlignSlot(widget_count')) :
                    /\ faulted' = (t = -1)
                    /\ text_align' = IF t \in Pool
                                     THEN [text_align EXCEPT ![t] = LCD_UI_ALIGN_LEFT]
                                     ELSE text_align
             ELSE UNCHANGED <<text_align, faulted>>
  /\ UNCHANGED <<widget_capacity, active_widget, touch_active, slider_value,
                 progress_percent>>
  /\ UNCHANGED <<touchVars, sliderVars>>

----------------------------------------------------------------------------
(* Hit-test and dispatch engine *)

\* The active widget after the `if (!ctx->touch_active)` block of a press
\* tick: the hit-test result on a new press, the latched widget otherwise.
\* the latch assignment placed after the loop instead of inside the hit test
PressTarget_LastSlot(x, y) ==
  IF touch_active = 0
  THEN IF widget_count > 0 /\ HitLoop(widgets, widget_count, 0, x, y) = NULL
       THEN widgets[widget_count - 1]
       ELSE HitLoop(widgets, widget_count, 0, x, y)
  ELSE active_widget
PressTarget_Rehit(x, y) == HitLoop(widgets, widget_count, 0, x, y)
PressTarget(x, y) ==
  IF touch_active = 0
  THEN HitLoop(widgets, widget_count, 0, x, y)
  ELSE active_widget

\* `if (ctx->active_widget)` of a press tick: a slider gets its custom
\* callback or the default handler, any other widget gets nothing.
ForwardsToCustom_AnyType(aw) ==
  /\ aw \in Pool
  /\ WidgetDef[aw].on_touch
\* the on_touch test left out: every slider gets the default handler
ForwardsToCustom_Never(aw) == FALSE
ForwardsToCustom(aw) ==
  /\ aw \in Pool
  /\ WidgetDef[aw].type = LCD_UI_WIDGET_SLIDER
  /\ WidgetDef[aw].on_touch

ForwardsToDefault(aw) ==
  /\ aw \in Pool
  /\ WidgetDef[aw].type = LCD_UI_WIDGET_SLIDER
  /\ ~WidgetDef[aw].on_touch

\* `if (active_widget && type == BUTTON && on_touch)` of a release tick
FiresOnRelease_NotSlider(aw) ==
  /\ aw \in Pool
  /\ WidgetDef[aw].type # LCD_UI_WIDGET_SLIDER
  /\ WidgetDef[aw].on_touch
FiresOnRelease_AnyType(aw) ==
  /\ aw \in Pool
  /\ WidgetDef[aw].on_touch
FiresOnRelease(aw) ==
  /\ aw \in Pool
  /\ WidgetDef[aw].type = LCD_UI_WIDGET_BUTTON
  /\ WidgetDef[aw].on_touch

\* `linked_progress->progress_percent = 100U - widget->slider_value;`
\* the slider's value copied to the bar
LinkedPercent_Same(v) == v % U8
LinkedPercent(v) == (100 - v) % U8

\* default_slider_touch_handler(ctx, w, x, y, user_data) with the division's
\* outcome v
default_slider_touch_handler(w, x, y, v) ==
  LET linked == WidgetDef[w].user_data
      invoked == <<Call("default_slider_touch_handler", w, x, y)>>
  IN  IF v = -1
      THEN /\ faulted' = TRUE
           /\ calls' = invoked
           /\ UNCHANGED <<slider_value, progress_percent>>
      ELSE /\ faulted' = FALSE
           /\ slider_value' = [slider_value EXCEPT ![w] = v]
           /\ calls' = IF WidgetDef[w].slider_update_callback
                       THEN invoked \o <<Call("slider_update_callback", w, v, 0)>>
                       ELSE invoked
           /\ progress_percent' =
                IF linked # NULL
                \* uint8_t <- 100U - slider_value (32-bit unsigned, truncated)
                THEN [progress_percent EXCEPT ![linked] = LinkedPercent(v)]
                ELSE progress_percent

lcd_ui_handle_touch_press(x, y) ==
  LET aw == PressTarget(x, y)
  IN  /\ ~faulted
      /\ last_op' = Op("touch", NULL, x, y, TRUE)
      /\ touch_active' = 1
      /\ IF aw = -1
         THEN /\ active_widget' = NULL
              /\ faulted' = TRUE
              /\ calls' = <<>>
              /\ UNCHANGED <<slider_value, progress_percent>>
         ELSE /\ active_widget' = aw
              /\ IF ForwardsToCustom(aw)
                 THEN /\ calls' = <<Call("on_touch", aw, x, y)>>
                      /\ UNCHANGED <<slider_value, progress_percent, faulted>>
                 ELSE IF ForwardsToDefault(aw)
                 THEN \E v \in SliderNewValues(WidgetDef[aw].x, WidgetDef[aw].width,
                                               WidgetDef[aw].height, x) :
                        default_slider_touch_handler(aw, x, y, v)
                 ELSE /\ calls' = <<>>
                      /\ UNCHANGED <<slider_value, progress_percent, faulted>>
      /\ UNCHANGED <<widgets, widget_capacity, widget_count, text_align>>

\* `ctx->touch_active = 0; ctx->active_widget = NULL;` of a release tick
ReleaseTouchActive_Keep(ta) == ta
ReleaseTouchActive(ta) == 0
ReleaseActiveWidget_Keep(aw) == aw
ReleaseActiveWidget(aw) == NULL

lcd_ui_handle_touch_release(x, y) ==
  /\ ~faulted
  /\ last_op' = Op("touch", NULL, x, y, FALSE)
  /\ calls' = IF FiresOnRelease(active_widget)
              THEN <<Call("on_touch", active_widget, x, y)>>
              ELSE <<>>
  /\ touch_active' = ReleaseTouchActive(touch_active)
  /\ active_widget' = ReleaseActiveWidget(active_widget)
  /\ UNCHANGED <<widgets, widget_capacity, widget_count, slider_value,
                 progress_percent, text_align, faulted>>

\* lcd_ui_handle_touch(ctx, x, y, is_pressed)
lcd_ui_handle_touch(x, y, is_pressed) ==
  IF is_pressed
  THEN lcd_ui_handle_touch_press(x, y)
  ELSE lcd_ui_handle_touch_release(x, y)

----------------------------------------------------------------------------
AddStep ==
  /\ \E w \in Pool \cup {NULL} : lcd_ui_add_widget(w)
  /\ UNCHANGED auxVars
ClearStep ==
  /\ lcd_ui_clear_widgets
  /\ UNCHANGED auxVars
ResetStep ==
  /\ lcd_ui_reset_screen
  /\ UNCHANGED auxVars
TouchStep ==
  /\ \E p \in TouchPoints, is_pressed \in BOOLEAN :
       lcd_ui_handle_touch(p[1], p[2], is_pressed)
  /\ UNCHANGED <<touchVars, sliderVars, auxVars>>

Next ==
  \/ AddStep
  \/ ClearStep
  \/ ResetStep
  \/ TouchStep

Spec == Init /\ [][Next]_vars

----------------------------------------------------------------------------
(* Touch signal normalizer (touch_ui.c) *)

\* event_result.event_type as the if / else-if chain of
\* touch_ui_process_input assigns it
\* the level of is_pressed reported instead of its edges
EventType_Level(was_pressed, last_x, last_y, x, y, is_pressed) ==
  IF is_pressed THEN "touch_ui_event_pressed"
  ELSE IF was_pressed THEN "touch_ui_event_released"
  ELSE "touch_ui_event_none"

EventType_MovedAlways(was_pressed, last_x, last_y, x, y, is_pressed) ==
  IF (~was_pressed) /\ is_pressed THEN "touch_ui_event_pressed"
  ELSE IF was_pressed /\ (~is_pressed) THEN "touch_ui_event_released"
  ELSE IF is_pressed THEN "touch_ui_event_moved"
  ELSE "touch_ui_event_none"

EventType(was_pressed, last_x, last_y, x, y, is_pressed) ==
  LET press_changed == (was_pressed # is_pressed)
  IN  IF (~was_pressed) /\ is_pressed THEN "touch_ui_event_pressed"
      ELSE IF was_pressed /\ (~is_pressed) THEN "touch_ui_event_released"
      ELSE IF is_pressed /\ ~press_changed
           THEN IF (x # last_x) \/ (y # last_y)
                THEN "touch_ui_event_moved"
                ELSE "touch_ui_event_none"
      ELSE "touch_ui_event_none"

\* the stored position refreshed on a pressed event only
touch_ui_process_input_StaleXY(x, y, is_pressed, t) ==
  LET was_pressed == last_press_state
  IN  /\ sample' = Sample(x, y, is_pressed, t)
      /\ event_result' =
           Event(EventType(was_pressed, last_x_position, last_y_position,
                           x, y, is_pressed), x, y, t)
      /\ last_press_state' = is_pressed
      /\ last_x_position' = IF (~was_pressed) /\ is_pressed THEN x ELSE last_x_position
      /\ last_y_position' = IF (~was_pressed) /\ is_pressed THEN y ELSE last_y_position
      /\ last_press_timestamp_value' =
           IF (~was_pressed) /\ is_pressed THEN t ELSE last_press_timestamp_value

touch_ui_process_input(x, y, is_pressed, t) ==
  LET was_pressed == last_press_state
  IN  /\ sample' = Sample(x, y, is_pressed, t)
      /\ event_result' =
           Event(EventType(was_pressed, last_x_position, last_y_position,
                           x, y, is_pressed), x, y, t)
      /\ last_press_state' = is_pressed
      /\ last_x_position' = IF is_pressed THEN x ELSE last_x_position
      /\ last_y_position' = IF is_pressed THEN y ELSE last_y_position
      /\ last_press_timestamp_value' =
           IF (~was_pressed) /\ is_pressed THEN t ELSE last_press_timestamp_value

\* the phase after the caller has received event type e
NextPhase(phase, e) ==
  IF e = "touch_ui_event_pressed" THEN "down"
  ELSE IF e = "touch_ui_event_released" THEN "up"
  ELSE phase

ProcessStep ==
  /\ \E x \in SampleXs, y \in SampleYs, is_pressed \in BOOLEAN, t \in 0..MaxTime :
       touch_ui_process_input(x, y, is_pressed, t)
  /\ ev_phase' = NextPhase(ev_phase, event_result'.event_type)
  /\ UNCHANGED <<uiVars, sliderVars, argVars, concVars, hitVars, pollVars,
                 regVars>>

NextNorm == ProcessStep

SpecNorm == Init /\ [][NextNorm]_vars

----------------------------------------------------------------------------
(* The argument checks at the head of the public functions.  The context   *)
(* argument is NULL or the address CTX of the caller's context object.     *)

\* widgets, touch positions and sample coordinates of the argument checks
ArgWidgets == {1, 2}
ArgPoints == {<<20, 20>>, <<100, 100>>}
ArgSampleXs == {0, 5}
ArgSampleYs == {7}

\* `if (!ctx || !widget) return;`
AddArgsInvalid(ctx, w) == ctx = NULL \/ w = NULL

\* `if (!ctx) return;`
TouchCtxInvalid_Never(ctx) == FALSE
TouchCtxInvalid(ctx) == ctx = NULL

\* `if (context == 0) { return event_result; }`
ProcessCtxInvalid_Never(context) == FALSE
ProcessCtxInvalid(context) == context = NULL

\* lcd_ui_add_widget(ctx, widget), the argument check included
lcd_ui_add_widget_ctx(ctx, w) ==
  /\ last_call' = LibCall("lcd_ui_add_widget", ctx, w)
  /\ IF AddArgsInvalid(ctx, w)
     THEN /\ calls' = <<>>
          /\ UNCHANGED <<widgets, widget_capacity, widget_count, active_widget,
                         touch_active, slider_value, progress_percent,
                         text_align, faulted, last_op>>
          /\ UNCHANGED <<touchVars, sliderVars>>
     ELSE lcd_ui_add_widget(w)

\* lcd_ui_handle_touch(ctx, x, y, is_pressed), the argument check included
lcd_ui_handle_touch_ctx(ctx, x, y, is_pressed) ==
  /\ last_call' = LibCall("lcd_ui_handle_touch", ctx, NULL)
  /\ IF TouchCtxInvalid(ctx)
     THEN /\ calls' = <<>>
          /\ UNCHANGED <<widgets, widget_capacity, widget_count, active_widget,
                         touch_active, slider_value, progress_percent,
                         text_align, faulted, last_op>>
     ELSE lcd_ui_handle_touch(x, y, is_pressed)
  /\ UNCHANGED <<touchVars, sliderVars>>

\* touch_ui_process_input(context, x, y, is_pressed, timestamp), the argument
\* check included: event_result is filled in before the check
touch_ui_process_input_ctx(context, x, y, is_pressed, t) ==
  /\ last_call' = LibCall("touch_ui_process_input", context, NULL)
  /\ IF ProcessCtxInvalid(context)
     THEN /\ sample' = Sample(x, y, is_pressed, t)
          /\ event_result' = Event("touch_ui_event_none", x, y, t)
          /\ UNCHANGED <<last_press_state, last_x_position, last_y_position,
                         last_press_timestamp_value>>
     ELSE touch_ui_process_input(x, y, is_pressed, t)
  /\ UNCHANGED <<uiVars, sliderVars>>

AddArgsStep ==
  /\ \E ctx \in {NULL, CTX}, w \in ArgWidgets \cup {NULL} :
       lcd_ui_add_widget_ctx(ctx, w)
  /\ UNCHANGED <<concVars, hitVars, pollVars, regVars, normVars>>
TouchArgsStep ==
  /\ \E ctx \in {NULL, CTX}, p \in ArgPoints, is_pressed \in BOOLEAN :
       lcd_ui_handle_touch_ctx(ctx, p[1], p[2], is_pressed)
  /\ UNCHANGED <<concVars, hitVars, pollVars, regVars, normVars>>
ProcessArgsStep ==
  /\ \E context \in {NULL, CTX}, x \in ArgSampleXs, y \in ArgSampleYs,
        is_pressed \in BOOLEAN :
       touch_ui_process_input_ctx(context, x, y, is_pressed, 0)
  /\ UNCHANGED <<concVars, hitVars, pollVars, regVars, normVars>>

NextArgs ==
  \/ AddArgsStep
  \/ TouchArgsStep
  \/ ProcessArgsStep

SpecArgs == Init /\ [][NextArgs]_vars

----------------------------------------------------------------------------
(* Two tasks on one context with no lock: one runs lcd_ui_handle_touch,    *)
(* the other lcd_ui_add_widget, lcd_ui_clear_widgets or lcd_ui_render.     *)
(* Each step is one read or one write of widget_count, a registry slot,    *)
(* touch_active or active_widget.                                          *)

\* widgets added and positions touched by the two tasks; <<20, 20>> lies in
\* the hit boxes of both widgets
ConcWidgets == {1, 2}
ConcPoints == {<<20, 20>>}
ConcRegOps ==
  {RegOp("lcd_ui_add_widget", w) : w \in ConcWidgets}
    \cup {RegOp("lcd_ui_clear_widgets", NULL), RegOp("lcd_ui_render", NULL)}

\* the first statement of each function after its argument check
TouchEntry(is_pressed) ==
  IF is_pressed THEN "t_test_active" ELSE "t_release_dispatch"
RegEntry(fn) ==
  CASE fn = "lcd_ui_add_widget" -> "r_add_check"
    [] fn = "lcd_ui_clear_widgets" -> "r_clear_count"
    [] fn = "lcd_ui_render" -> "r_render_cond"

\* what no step of the two tasks changes
concFrame == <<touchVars, sliderVars, argVars, hitVars, pollVars, regVars,
               normVars,
               last_op,
               widget_capacity>>
\* what no step of the touch task changes
TFrame ==
  UNCHANGED <<concFrame, regTaskVars, round_start, t_args, widgets,
              widget_count, text_align>>
\* what no step of the registry task changes
RFrame ==
  UNCHANGED <<concFrame, touchTaskVars, round_start, r_op, active_widget,
              touch_active, slider_value, progress_percent, calls, null_deref>>

\* both tasks enter their functions; the steps that follow interleave freely
ConcCall ==
  /\ ~faulted
  /\ pc_touch = "t_return"
  /\ pc_reg = "r_return"
  /\ \E p \in ConcPoints, is_pressed \in BOOLEAN :
       /\ t_args' = TouchArgs(p[1], p[2], is_pressed)
       /\ pc_touch' = TouchEntry(is_pressed)
  /\ \E op \in ConcRegOps :
       /\ r_op' = op
       /\ pc_reg' = RegEntry(op.fn)
  /\ round_start' = Ctx
  /\ t_i' = 0
  /\ t_w' = NULL
  /\ r_i' = 0
  /\ r_n' = 0
  /\ null_deref' = FALSE
  /\ calls' = <<>>
  /\ UNCHANGED <<concFrame, widgets, widget_count, active_widget,
                 touch_active, slider_value, progress_percent, text_align,
                 faulted>>

\* `if (!ctx->touch_active)`
T_TestActive ==
  /\ ~faulted
  /\ pc_touch = "t_test_active"
  /\ pc_touch' = IF touch_active = 0 THEN "t_set_active" ELSE "t_dispatch"
  /\ UNCHANGED <<t_i, t_w, touch_active, active_widget, null_deref, faulted,
                 calls, slider_value, progress_percent>>
  /\ TFrame

\* `ctx->touch_active = 1;`
T_SetActive ==
  /\ ~faulted
  /\ pc_touch = "t_set_active"
  /\ touch_active' = 1
  /\ pc_touch' = "t_clear_widget"
  /\ UNCHANGED <<t_i, t_w, active_widget, null_deref, faulted, calls,
                 slider_value, progress_percent>>
  /\ TFrame

\* `ctx->active_widget = NULL;` and `i = 0`
T_ClearActiveWidget ==
  /\ ~faulted
  /\ pc_touch = "t_clear_widget"
  /\ active_widget' = NULL
  /\ t_i' = 0
  /\ pc_touch' = "t_loop_cond"
  /\ UNCHANGED <<t_w, touch_active, null_deref, faulted, calls, slider_value,
                 progress_percent>>
  /\ TFrame

\* `i < ctx->widget_count`
T_LoopCond ==
  /\ ~faulted
  /\ pc_touch = "t_loop_cond"
  /\ pc_touch' = IF t_i < widget_count THEN "t_load_slot" ELSE "t_dispatch"
  /\ UNCHANGED <<t_i, t_w, touch_active, active_widget, null_deref, faulted,
                 calls, slider_value, progress_percent>>
  /\ TFrame

\* `lcd_ui_widget_t *w = ctx->widgets[i];`
T_LoadSlot ==
  /\ ~faulted
  /\ pc_touch = "t_load_slot"
  /\ t_w' = widgets[t_i]
  /\ pc_touch' = "t_hit_test"
  /\ UNCHANGED <<t_i, touch_active, active_widget, null_deref, faulted, calls,
                 slider_value, progress_percent>>
  /\ TFrame

\* The outcomes of the hit test on w: the reads of w->type, w->x, ... through
\* a NULL w either fault or return whatever lies at that address, so the
\* test may come out either way.
HitOutcomes(w, x, y) ==
  IF w = NULL THEN {"fault", "hit", "miss"}
  ELSE IF Hit(w, x, y) THEN {"hit"} ELSE {"miss"}

\* the margin switch, the hit box and the test of the loop body; `++i`
T_HitTest ==
  /\ ~faulted
  /\ pc_touch = "t_hit_test"
  /\ null_deref' = (null_deref \/ t_w = NULL)
  /\ \E outcome \in HitOutcomes(t_w, t_args.x, t_args.y) :
       /\ faulted' = (outcome = "fault")
       /\ t_i' = IF outcome = "miss" THEN (t_i + 1) % U8 ELSE t_i
       /\ pc_touch' = CASE outcome = "hit" -> "t_latch"
                        [] outcome = "miss" -> "t_loop_cond"
                        [] outcome = "fault" -> pc_touch
  /\ UNCHANGED <<t_w, touch_active, active_widget, calls, slider_value,
                 progress_percent>>
  /\ TFrame

\* `ctx->active_widget = w; break;`
T_Latch ==
  /\ ~faulted
  /\ pc_touch = "t_latch"
  /\ active_widget' = t_w
  /\ pc_touch' = "t_dispatch"
  /\ UNCHANGED <<t_i, t_w, touch_active, null_deref, faulted, calls,
                 slider_value, progress_percent>>
  /\ TFrame

\* `if (ctx->active_widget) { ... }` of a press tick
T_Dispatch ==
  /\ ~faulted
  /\ pc_touch = "t_dispatch"
  /\ IF ForwardsToCustom(active_widget)
     THEN /\ calls' = <<Call("on_touch", active_widget, t_args.x, t_args.y)>>
          /\ UNCHANGED <<slider_value, progress_percent, faulted>>
     ELSE IF ForwardsToDefault(active_widget)
     THEN \E v \in SliderNewValues(WidgetDef[active_widget].x,
                                   WidgetDef[active_widget].width,
                                   WidgetDef[active_widget].height, t_args.x) :
            default_slider_touch_handler(active_widget, t_args.x, t_args.y, v)
     ELSE /\ calls' = <<>>
          /\ UNCHANGED <<slider_value, progress_percent, faulted>>
  /\ pc_touch' = "t_return"
  /\ UNCHANGED <<t_i, t_w, touch_active, active_widget, null_deref>>
  /\ TFrame

\* the button callback of a release tick
T_ReleaseDispatch ==
  /\ ~faulted
  /\ pc_touch = "t_release_dispatch"
  /\ calls' = IF FiresOnRelease(active_widget)
              THEN <<Call("on_touch", active_widget, t_args.x, t_args.y)>>
              ELSE <<>>
  /\ pc_touch' = "t_release_active"
  /\ UNCHANGED <<t_i, t_w, touch_active, active_widget, null_deref, faulted,
                 slider_value, progress_percent>>
  /\ TFrame

\* `ctx->touch_active = 0;`
T_ReleaseTouchActive ==
  /\ ~faulted
  /\ pc_touch = "t_release_active"
  /\ touch_active' = ReleaseTouchActive(touch_active)
  /\ pc_touch' = "t_release_widget"
  /\ UNCHANGED <<t_i, t_w, active_widget, null_deref, faulted, calls,
                 slider_value, progress_percent>>
  /\ TFrame

\* `ctx->active_widget = NULL;`
T_ReleaseActiveWidget ==
  /\ ~faulted
  /\ pc_touch = "t_release_widget"
  /\ active_widget' = ReleaseActiveWidget(active_widget)
  /\ pc_touch' = "t_return"
  /\ UNCHANGED <<t_i, t_w, touch_active, null_deref, faulted, calls,
                 slider_value, progress_percent>>
  /\ TFrame

\* `if (ctx->widget_count >= ctx->widget_capacity) return;` and the read of
\* widget_count for the store
R_AddCheck ==
  /\ ~faulted
  /\ pc_reg = "r_add_check"
  /\ IF AddRejected(r_op.w)
     THEN /\ pc_reg' = "r_return"
          /\ UNCHANGED r_n
     ELSE /\ pc_reg' = "r_add_store"
          /\ r_n' = widget_count
  /\ UNCHANGED <<r_i, widgets, widget_count, text_align, faulted>>
  /\ RFrame

\* `ctx->widgets[ctx->widget_count++] = widget;` is two writes that the
\* language leaves unordered: the slot first ...
R_AddSlotFirst ==
  /\ ~faulted
  /\ pc_reg = "r_add_store"
  /\ widgets' = [widgets EXCEPT ![r_n] = r_op.w]
  /\ pc_reg' = "r_add_count"
  /\ UNCHANGED <<r_i, r_n, widget_count, text_align, faulted>>
  /\ RFrame

R_AddCountSecond ==
  /\ ~faulted
  /\ pc_reg = "r_add_count"
  /\ widget_count' = r_n + 1
  /\ pc_reg' = "r_add_align"
  /\ UNCHANGED <<r_i, r_n, widgets, text_align, faulted>>
  /\ RFrame

\* ... or the count first
R_AddCountFirst ==
  /\ ~faulted
  /\ pc_reg = "r_add_store"
  /\ widget_count' = r_n + 1
  /\ pc_reg' = "r_add_slot"
  /\ UNCHANGED <<r_i, r_n, widgets, text_align, faulted>>
  /\ RFrame

R_AddSlotSecond ==
  /\ ~faulted
  /\ pc_reg = "r_add_slot"
  /\ widgets' = [widgets EXCEPT ![r_n] = r_op.w]
  /\ pc_reg' = "r_add_align"
  /\ UNCHANGED <<r_i, r_n, widget_count, text_align, faulted>>
  /\ RFrame

\* `if (widget->text_align > LCD_UI_ALIGN_RIGHT) { ... }`
R_AddAlign ==
  /\ ~faulted
  /\ pc_reg = "r_add_align"
  /\ IF text_align[r_op.w] > LCD_UI_ALIGN_RIGHT
     THEN \E t \in AlignTargets(widgets, AlignSlot(widget_count)) :
            /\ faulted' = (t = -1)
            /\ text_align' = IF t \in Pool
                             THEN [text_align EXCEPT ![t] = LCD_UI_ALIGN_LEFT]
                             ELSE text_align
     ELSE UNCHANGED <<text_align, faulted>>
  /\ pc_reg' = "r_return"
  /\ UNCHANGED <<r_i, r_n, widgets, widget_count>>
  /\ RFrame

\* `ctx->widget_count = 0;` and `i = 0`
R_ClearCount ==
  /\ ~faulted
  /\ pc_reg = "r_clear_count"
  /\ widget_count' = 0
  /\ r_i' = 0
  /\ pc_reg' = "r_clear_loop"
  /\ UNCHANGED <<r_n, widgets, text_align, faulted>>
  /\ RFrame

\* `i < ctx->widget_capacity`, `ctx->widgets[i] = NULL;`, `++i`
R_ClearSlot ==
  /\ ~faulted
  /\ pc_reg = "r_clear_loop"
  /\ IF r_i < widget_capacity
     THEN /\ widgets' = [widgets EXCEPT ![r_i] = NULL]
          /\ r_i' = (r_i + 1) % U8
          /\ UNCHANGED pc_reg
     ELSE /\ pc_reg' = "r_return"
          /\ UNCHANGED <<widgets, r_i>>
  /\ UNCHANGED <<r_n, widget_count, text_align, faulted>>
  /\ RFrame

\* `i < ctx->widget_count` of lcd_ui_render
R_RenderCond ==
  /\ ~faulted
  /\ pc_reg = "r_render_cond"
  /\ pc_reg' = IF r_i < widget_count THEN "r_render_draw" ELSE "r_return"
  /\ UNCHANGED <<r_i, r_n, widgets, widget_count, text_align, faulted>>
  /\ RFrame

\* `draw_widget(ctx, ctx->widgets[i]);` returns at once on a NULL widget
\* and only reads the others; `++i`
R_RenderDraw ==
  /\ ~faulted
  /\ pc_reg = "r_render_draw"
  /\ r_i' = (r_i + 1) % U8
  /\ pc_reg' = "r_render_cond"
  /\ UNCHANGED <<r_n, widgets, widget_count, text_align, faulted>>
  /\ RFrame

NextConc ==
  \/ ConcCall
  \/ T_TestActive
  \/ T_SetActive
  \/ T_ClearActiveWidget
  \/ T_LoopCond
  \/ T_LoadSlot
  \/ T_HitTest
  \/ T_Latch
  \/ T_Dispatch
  \/ T_ReleaseDispatch
  \/ T_ReleaseTouchActive
  \/ T_ReleaseActiveWidget
  \/ R_AddCheck
  \/ R_AddSlotFirst
  \/ R_AddCountSecond
  \/ R_AddCountFirst
  \/ R_AddSlotSecond
  \/ R_AddAlign
  \/ R_ClearCount
  \/ R_ClearSlot
  \/ R_RenderCond
  \/ R_RenderDraw

SpecConc == Init /\ [][NextConc]_vars

----------------------------------------------------------------------------
(* The hit test of one loop iteration on a free-standing widget: widget    *)
(* positions include ones below the margin and ones whose far edge runs    *)
(* past the 16-bit coordinate range.                                       *)

HitTypes == {LCD_UI_WIDGET_LABEL, LCD_UI_WIDGET_BUTTON, LCD_UI_WIDGET_SLIDER,
             LCD_UI_WIDGET_PROGRESS_BAR}
HitXPos == {0, 2, 6, 65520}
HitYPos == {0, 7}
HitWidths == {10}
HitHeights == {9, 14}
HitTouchXs == {0, 4, 5, 11, 12, 16, 22, 65514, 65531, 65535}
HitTouchYs == {0, 1, 5, 17, 22, 23, 26, 27}

\* the widget is set up before the touch loop starts
InitH ==
  /\ InitUi
  /\ InitTouch
  /\ InitAux
  /\ sl_geom = Geom(0, 100, 20)
  /\ sl_prev = NotApplied
  /\ sl_cur = NotApplied
  /\ sl_percent = 100
  /\ hb_widget \in {Box(type, wx, wy, width, height) :
                      type \in HitTypes, wx \in HitXPos, wy \in HitYPos,
                      width \in HitWidths, height \in HitHeights}
  /\ hb_point = <<0, 0>>
  /\ hb_hit = "none"
  /\ poll = PollRead("none", FALSE, 0)

HitTestStep ==
  /\ \E x \in HitTouchXs, y \in HitTouchYs :
       /\ hb_point' = <<x, y>>
       /\ hb_hit' = IF HitBox(hb_widget, x, y) THEN "hit" ELSE "miss"
  /\ UNCHANGED <<uiVars, touchVars, sliderVars, argVars, concVars, pollVars,
                 regVars, normVars,
                 hb_widget>>

NextHit == HitTestStep

SpecHit == InitH /\ [][NextHit]_vars

----------------------------------------------------------------------------
(* The touch task: each iteration of its loop reads a sample, feeds a      *)
(* successful read to touch_ui_process_input and hands the sample to       *)
(* lcd_ui_handle_touch when the event is not none.  Widgets are added      *)
(* between iterations.                                                     *)

PollWidgets == {1, 2}
\* inside button 1 and slider 2; inside slider 2 only; outside every widget
PollPoints == {<<20, 20>>, <<40, 25>>, <<100, 100>>}

\* `if (evt.event_type != touch_ui_event_none)`
\* only press and move events handed on
Forwarded_PressOnly(evt) ==
  evt.event_type \in {"touch_ui_event_pressed", "touch_ui_event_moved"}
Forwarded(evt) == evt.event_type # "touch_ui_event_none"

\* touch_ui_read_state returned false: the iteration does nothing
PollReadFails ==
  /\ ~faulted
  /\ poll' = PollRead("failed", FALSE, 1 - poll.tick)
  /\ UNCHANGED <<uiVars, touchVars, sliderVars, argVars, concVars, hitVars,
                 regVars, normVars>>

\* touch_ui_read_state returned true with the sample (x, y, is_pressed)
PollReadOk ==
  /\ ~faulted
  /\ \E p \in PollPoints, is_pressed \in BOOLEAN :
       /\ touch_ui_process_input(p[1], p[2], is_pressed, 0)
       /\ IF Forwarded(event_result')
          THEN lcd_ui_handle_touch(p[1], p[2], is_pressed)
          ELSE UNCHANGED uiVars
  /\ poll' = PollRead("ok", Forwarded(event_result'), 1 - poll.tick)
  /\ UNCHANGED <<sliderVars, argVars, concVars, hitVars, regVars, normVars>>

PollAddStep ==
  /\ \E w \in PollWidgets : lcd_ui_add_widget(w)
  /\ UNCHANGED auxVars

NextPoll ==
  \/ PollAddStep
  \/ PollReadFails
  \/ PollReadOk

SpecPoll == Init /\ [][NextPoll]_vars

----------------------------------------------------------------------------
(* The registry alone: lcd_ui_init, lcd_ui_add_widget and                  *)
(* lcd_ui_clear_widgets in any order, with the accepted widgets recorded.  *)

RegInitStep ==
  /\ lcd_ui_init
  /\ added' = <<>>
  /\ UNCHANGED <<argVars, concVars, hitVars, pollVars, normVars>>

RegAddStep ==
  /\ \E w \in Pool \cup {NULL} :
       /\ lcd_ui_add_widget(w)
       /\ added' = IF AddRejected(w) THEN added ELSE Append(added, w)
  /\ UNCHANGED <<argVars, concVars, hitVars, pollVars, normVars>>

RegClearStep ==
  /\ lcd_ui_clear_widgets
  /\ added' = <<>>
  /\ UNCHANGED <<argVars, concVars, hitVars, pollVars, normVars>>

NextReg ==
  \/ RegInitStep
  \/ RegAddStep
  \/ RegClearStep

SpecReg == Init /\ [][NextReg]_vars

----------------------------------------------------------------------------
(* default_slider_touch_handler on a free-standing slider: the geometry is *)
(* chosen at the start, every step is one run of the handler.              *)

InitS ==
  /\ InitUi
  /\ InitTouch
  /\ InitAux
  /\ InitHit
  /\ sl_geom \in {Geom(wx, width, height) :
                    wx \in SliderXPos, width \in SliderWidths, height \in SliderHeights}
  /\ sl_prev = NotApplied
  /\ sl_cur = NotApplied
  /\ sl_percent = 100

SliderStep ==
  /\ ~faulted
  /\ \E x \in SliderTouchXs :
       \E v \in SliderNewValues(sl_geom.x, sl_geom.width, sl_geom.height, x) :
         /\ faulted' = (v = -1)
         /\ sl_prev' = sl_cur
         /\ sl_cur' = [x |-> x, value |-> IF v = -1 THEN sl_cur.value ELSE v]
         \* uint8_t <- 100U - slider_value (32-bit unsigned, truncated)
         /\ sl_percent' = IF v = -1 THEN sl_percent ELSE LinkedPercent(v)
  /\ UNCHANGED <<widgets, widget_capacity, widget_count, active_widget, touch_active,
                 slider_value, progress_percent, text_align, last_op, calls>>
  /\ UNCHANGED <<touchVars, sl_geom, auxVars>>

NextSlider == SliderStep

SpecSlider == InitS /\ [][NextSlider]_vars

----------------------------------------------------------------------------
(* Properties of the dispatch engine and the registry (checked under Spec) *)

PressTick == last_op.op = "touch" /\ last_op.pressed
ReleaseTick == last_op.op = "touch" /\ ~last_op.pressed
IsType(w, t) == w \in Pool /\ WidgetDef[w].type = t

\* the registry indices whose widget's expanded box contains (x, y)
HitIndices(x, y) ==
  {i \in 0..(widget_count - 1) : widgets[i] \in Pool /\ Hit(widgets[i], x, y)}

\* C1: in every reachable state active_widget is non-none if and only if
\* touch_active is true.
C1_ActiveIffTouchActive == (active_widget # NULL) <=> (touch_active = 1)

\* C1 (amended): in every reachable state a non-none active_widget implies
\* that touch_active is true; touch_active is also true, with no active
\* widget, after a press that matched no widget.
C1_ActiveOnlyWhileTouchActive == (active_widget # NULL) => (touch_active = 1)

C1_Witness ==
  /\ PressTick
  /\ last_op.was_active = 0
  /\ active_widget # NULL
  /\ touch_active = 1

\* C2: drag-lock.  A press tick that finds a widget latched leaves
\* active_widget equal to that widget, wherever the tick's point lies.
C2_DragLock ==
  (PressTick /\ last_op.was_widget # NULL) => active_widget = last_op.was_widget

\* button 1 stays latched while the finger is over slider 2, registered as
\* well, and outside button 1
C2_Witness ==
  /\ PressTick
  /\ last_op.was_widget = 1
  /\ active_widget = 1
  /\ ~Hit(1, last_op.x, last_op.y)
  /\ \E i \in HitIndices(last_op.x, last_op.y) : widgets[i] = 2

\* C3: hit-test tie-break.  After a press tick in IDLE whose point lies in
\* the expanded boxes of two or more registered widgets, active_widget is
\* the widget of the lowest such registry index.
C3_TieBreak ==
  (/\ PressTick
   /\ last_op.was_active = 0
   /\ Cardinality(HitIndices(last_op.x, last_op.y)) >= 2)
  => \E i \in HitIndices(last_op.x, last_op.y) :
       /\ \A j \in HitIndices(last_op.x, last_op.y) : i <= j
       /\ active_widget = widgets[i]

\* slider 2 registered before button 1, the point inside both boxes
C3_Witness ==
  /\ PressTick
  /\ last_op.was_active = 0
  /\ widget_count = 2
  /\ widgets[0] = 2
  /\ widgets[1] = 1
  /\ HitIndices(last_op.x, last_op.y) = {0, 1}
  /\ active_widget = 2

\* the calls in the log that are touch callbacks of a button
ButtonCalls ==
  {i \in DOMAIN calls :
     calls[i].cb = "on_touch" /\ IsType(calls[i].w, LCD_UI_WIDGET_BUTTON)}

\* C4: a button with a touch callback that a press latched gets its
\* callback exactly once in the session: the release tick invokes it, once,
\* with the release tick's coordinates; no press tick invokes a button
\* callback; a release tick that finds no widget latched invokes nothing.
C4_ButtonOnceOnRelease ==
  /\ PressTick => ButtonCalls = {}
  /\ (ReleaseTick /\ FiresOnRelease(last_op.was_widget))
       => calls = <<Call("on_touch", last_op.was_widget, last_op.x, last_op.y)>>
  /\ (ReleaseTick /\ last_op.was_widget = NULL) => calls = <<>>
  /\ last_op.op # "touch" => calls = <<>>

\* button 1 was latched and the finger is released outside every widget
C4_Witness ==
  /\ ReleaseTick
  /\ last_op.was_widget = 1
  /\ last_op.x = 100
  /\ last_op.y = 100
  /\ calls = <<Call("on_touch", 1, 100, 100)>>

\* the handler invocation a latched slider gets on a press tick at (x, y)
SliderHandlerCall(w, x, y) ==
  IF WidgetDef[w].on_touch
  THEN Call("on_touch", w, x, y)
  ELSE Call("default_slider_touch_handler", w, x, y)

\* C5: after every press tick that leaves a slider latched (the latching
\* tick included) the slider's handler has been invoked with that tick's
\* (x, y), whether or not the point is inside the slider; the release tick
\* that ends the session invokes no callback and leaves the engine IDLE.
C5_SliderForwarding ==
  /\ (PressTick /\ IsType(active_widget, LCD_UI_WIDGET_SLIDER))
       => /\ Len(calls) >= 1
          /\ calls[1] = SliderHandlerCall(active_widget, last_op.x, last_op.y)
          /\ \A i \in DOMAIN calls : calls[i].w = active_widget
  /\ (ReleaseTick /\ IsType(last_op.was_widget, LCD_UI_WIDGET_SLIDER))
       => /\ calls = <<>>
          /\ touch_active = 0
          /\ active_widget = NULL

\* slider 2 is latched and dragged to a point outside every widget
C5_Witness ==
  /\ PressTick
  /\ last_op.was_widget = 2
  /\ active_widget = 2
  /\ HitIndices(last_op.x, last_op.y) = {}
  /\ ~Hit(2, last_op.x, last_op.y)
  /\ calls[1] = Call("default_slider_touch_handler", 2, last_op.x, last_op.y)
  /\ slider_value[2] = 100

\* C6: after any release tick the context is IDLE: touch_active is false
\* and active_widget is none.
C6_ReleaseIdle == ReleaseTick => (touch_active = 0 /\ active_widget = NULL)

\* a release that follows a press over empty space
C6_Witness ==
  /\ ReleaseTick
  /\ last_op.was_active = 1
  /\ last_op.was_widget = NULL
  /\ touch_active = 0
  /\ active_widget = NULL

\* C7: widget_count never exceeds widget_capacity, and an add made when
\* widget_count equals widget_capacity leaves widget_count and every
\* registry slot unchanged.
C7_Capacity ==
  /\ [](widget_count <= widget_capacity)
  /\ [][(last_op'.op = "add" /\ widget_count = widget_capacity)
          => (widget_count' = widget_count /\ widgets' = widgets)]_vars

\* a widget was offered to a full registry
C7_Witness ==
  /\ last_op.op = "add"
  /\ last_op.w # NULL
  /\ last_op.was_count = widget_capacity
  /\ widget_count = widget_capacity

----------------------------------------------------------------------------
(* Properties of the normalizer (checked under SpecNorm) *)

\* the event type as the transition table states it
TableEvent(was_pressed, last_x, last_y, s) ==
  CASE (~was_pressed) /\ s.is_pressed -> "touch_ui_event_pressed"
    [] was_pressed /\ (~s.is_pressed) -> "touch_ui_event_released"
    [] was_pressed /\ s.is_pressed /\ <<s.x, s.y>> # <<last_x, last_y>>
         -> "touch_ui_event_moved"
    [] OTHER -> "touch_ui_event_none"

\* C8: the event type touch_ui_process_input returns is pressed when
\* last_press_state was false and the sample is pressed, released when it
\* was true and the sample is not pressed, moved when both are true and the
\* sample's (x, y) differs from the stored one, none otherwise; it is never
\* held or double_tap.
C8_EventTable ==
  [][/\ event_result'.event_type =
          TableEvent(last_press_state, last_x_position, last_y_position, sample')
     /\ event_result'.event_type \in
          {"touch_ui_event_none", "touch_ui_event_pressed",
           "touch_ui_event_released", "touch_ui_event_moved"}]_vars

\* a pressed sample at the stored position returned none
C8_Witness ==
  /\ sample.is_pressed
  /\ last_press_state
  /\ event_result.event_type = "touch_ui_event_none"
  /\ event_result.x_position = 5
  /\ event_result.y_position = 7

----------------------------------------------------------------------------
(* Properties of the default slider handler (checked under SpecSlider) *)

\* the usable bounds and the value over the unbounded integers
LowerBound(g) == g.x + (g.height \div 2)
UpperBound(g) == g.x + g.width - (g.height \div 2)
Clamp(x, lo, hi) == IF x < lo THEN lo ELSE IF x > hi THEN hi ELSE x
LinearValue(g, x) ==
  ((Clamp(x, LowerBound(g), UpperBound(g)) - LowerBound(g)) * 100)
    \div (UpperBound(g) - LowerBound(g))

HandlerRan == sl_cur.x # -1

\* C9: for every touch x and every slider geometry with width greater than
\* height the handler sets the value to
\* (clamp(x, min_x, max_x) - min_x) * 100 / range_x.
C9_SliderFormula ==
  (HandlerRan /\ sl_geom.width > sl_geom.height)
    => (~faulted /\ sl_cur.value = LinearValue(sl_geom, sl_cur.x))

\* C9 (amended): the same, for the geometries with width greater than height
\* whose upper usable bound widget.x + width - height/2 is at most 65535
\* (the 16-bit bounds do not wrap).
C9_SliderFormulaNoWrap ==
  (HandlerRan /\ sl_geom.width > sl_geom.height /\ UpperBound(sl_geom) < U16)
    => (~faulted /\ sl_cur.value = LinearValue(sl_geom, sl_cur.x))

\* x = 0, width = 100, height = 20, touch x = 50 gives 50
C9_Witness ==
  /\ sl_geom = Geom(0, 100, 20)
  /\ sl_cur = [x |-> 50, value |-> 50]

\* the three parts of the saturation claim on the last two runs
SliderMonotonic ==
  (sl_prev.x # -1 /\ sl_prev.x <= sl_cur.x) => sl_prev.value <= sl_cur.value
SliderSaturates ==
  /\ sl_cur.x <= LowerBound(sl_geom) => sl_cur.value = 0
  /\ sl_cur.x >= UpperBound(sl_geom) => sl_cur.value = 100

\* C10: for a fixed slider geometry the value the handler writes is
\* monotonic non-decreasing in the touch x, 0 at or left of the lower usable
\* bound and 100 at or right of the upper usable bound.
C10_MonotonicSaturating ==
  (HandlerRan /\ ~faulted) => (SliderMonotonic /\ SliderSaturates)

\* C10 (amended): the same, for the geometries whose lower usable bound is
\* strictly below the upper usable bound and whose upper usable bound is at
\* most 65535.
C10_MonotonicSaturatingProper ==
  (/\ HandlerRan
   /\ LowerBound(sl_geom) < UpperBound(sl_geom)
   /\ UpperBound(sl_geom) < U16)
  => (~faulted /\ SliderMonotonic /\ SliderSaturates)

\* a run inside the usable range followed by a run right of it
C10_Witness ==
  /\ sl_geom = Geom(7, 21, 9)
  /\ sl_prev = [x |-> 17, value |-> 46]
  /\ sl_cur = [x |-> 50, value |-> 100]

----------------------------------------------------------------------------
(* Further properties of the registry and the dispatch engine (under Spec) *)

AddAccepted ==
  /\ last_op.op = "add"
  /\ last_op.w # NULL
  /\ last_op.was_count < widget_capacity

InRangeAlign(w) == text_align[w] \in
  {LCD_UI_ALIGN_LEFT, LCD_UI_ALIGN_CENTER, LCD_UI_ALIGN_RIGHT}

\* C12: after lcd_ui_add_widget accepts a widget whose text_align is outside
\* {LEFT, CENTER, RIGHT} the inserted widget has text_align LEFT, so every
\* registered widget has an in-range alignment.
C12_AlignNormalized ==
  /\ (AddAccepted /\ InitAlign[last_op.w] > LCD_UI_ALIGN_RIGHT)
       => text_align[last_op.w] = LCD_UI_ALIGN_LEFT
  /\ \A i \in 0..(widget_count - 1) : widgets[i] # NULL => InRangeAlign(widgets[i])

\* C14: lcd_ui_clear_widgets and lcd_ui_reset_screen set widget_count to 0
\* and every slot 0..widget_capacity-1 to none, from any registry state; the
\* add that follows a clear fills slot 0.
C14_ClearResets ==
  /\ last_op.op \in {"clear", "reset"}
       => /\ widget_count = 0
          /\ \A i \in 0..(widget_capacity - 1) : widgets[i] = NULL
  /\ (AddAccepted /\ last_op.was_count = 0)
       => /\ widgets[0] = last_op.w
          /\ \A i \in 1..(widget_capacity - 1) : widgets[i] = NULL

\* a full registry was cleared
C14_Witness ==
  /\ last_op.op = "clear"
  /\ last_op.was_count = widget_capacity
  /\ widget_count = 0
  /\ \A i \in 0..(widget_capacity - 1) : widgets[i] = NULL

\* a press tick in IDLE whose point is in no registered widget's box
EmptyPress ==
  /\ PressTick
  /\ last_op.was_active = 0
  /\ HitIndices(last_op.x, last_op.y) = {}

\* C15: after a press tick in IDLE that matches no registered widget the
\* engine is still IDLE (touch_active false, no active widget) and no
\* callback was invoked.
C15_EmptyPressIdle ==
  EmptyPress => (touch_active = 0 /\ active_widget = NULL /\ calls = <<>>)

\* C15 (amended): after a press tick in IDLE that matches no registered
\* widget there is no active widget and no callback was invoked, but
\* touch_active is true: the engine is pressed over empty space, not IDLE,
\* until the release tick.
C15_EmptyPressNoWidget ==
  EmptyPress => (touch_active = 1 /\ active_widget = NULL /\ calls = <<>>)

\* widgets are registered and the press lands outside all of them
C15_Witness ==
  /\ EmptyPress
  /\ widget_count = widget_capacity
  /\ touch_active = 1
  /\ active_widget = NULL

PassiveWidget(w) ==
  IsType(w, LCD_UI_WIDGET_PROGRESS_BAR) \/ IsType(w, LCD_UI_WIDGET_LABEL)

\* C16: no call ever invokes a touch callback or handler of a progress bar
\* or a label, on press ticks or on release, also when such a widget was
\* latched by a press inside its expanded box.
C16_PassiveNoDispatch == \A i \in DOMAIN calls : ~PassiveWidget(calls[i].w)

\* label 5, which carries an on_touch pointer, was latched and released
C16_Witness ==
  /\ ReleaseTick
  /\ last_op.was_widget = 5
  /\ WidgetDef[5].on_touch
  /\ Hit(5, last_op.x, last_op.y)
  /\ calls = <<>>

\* C18: the press tick that lands on a button with a touch callback invokes
\* that callback.
C18_ButtonOnPress ==
  (/\ PressTick
   /\ last_op.was_active = 0
   /\ FiresOnRelease(active_widget))
  => calls = <<Call("on_touch", active_widget, last_op.x, last_op.y)>>

----------------------------------------------------------------------------
(* Further properties of the default slider handler (under SpecSlider) *)

\* C13: for every slider geometry and every touch x the default slider
\* handler never divides by a zero range_x.
C13_ZeroRangeGuarded ==
  HandlerRan =>
    (~faulted /\ SliderRangeX(sl_geom.x, sl_geom.width, sl_geom.height) # 0)

----------------------------------------------------------------------------
(* Further properties of the normalizer (under SpecNorm) *)

\* C20: after every touch_ui_process_input call last_press_state equals the
\* sample's is_pressed; the stored (x, y) equals the sample's when is_pressed
\* is true and is unchanged otherwise; last_press_timestamp_value is written
\* by a call that returns pressed and unchanged by every other call.
C20_StateUpdate ==
  [][/\ last_press_state' = sample'.is_pressed
     /\ <<last_x_position', last_y_position'>> =
          IF sample'.is_pressed
          THEN <<sample'.x, sample'.y>>
          ELSE <<last_x_position, last_y_position>>
     /\ last_press_timestamp_value' =
          IF event_result'.event_type = "touch_ui_event_pressed"
          THEN sample'.timestamp
          ELSE last_press_timestamp_value]_vars

\* a moved event refreshed the position and left the press timestamp alone
C20_Witness ==
  /\ event_result.event_type = "touch_ui_event_moved"
  /\ last_press_state
  /\ last_x_position = sample.x
  /\ last_y_position = sample.y
  /\ last_press_timestamp_value # sample.timestamp

----------------------------------------------------------------------------
(* Value range (under SpecSlider) *)

\* C11: with the slider value and the linked progress bar's percent starting
\* in 0..100, after any sequence of runs of the default handler, for 16-bit
\* widget and touch coordinates, both are still in 0..100.
C11_ValueRange ==
  /\ sl_cur.value \in 0..100
  /\ sl_percent \in 0..100

\* a slider whose right edge lies past the 16-bit range, dragged to its end
C11_Witness ==
  /\ sl_geom = Geom(65500, 100, 9)
  /\ SliderMaxX(sl_geom.x, sl_geom.width, sl_geom.height) <
       SliderMinX(sl_geom.x, sl_geom.height)
  /\ sl_cur = [x |-> 65535, value |-> 100]
  /\ sl_percent = 0

\* C17: a call with invalid arguments is a silent no-op.  lcd_ui_add_widget
\* with a NULL context or a NULL widget and lcd_ui_handle_touch with a NULL
\* context leave the registry and the touch session as they were and invoke
\* no callback; touch_ui_process_input with a NULL context returns an event
\* of type none that carries the sample's coordinates and leaves the
\* normalizer state as it was.
C17_InvalidArgsNoOp ==
  [][ /\ ( \/ /\ last_call'.fn = "lcd_ui_add_widget"
              /\ (last_call'.ctx = NULL \/ last_call'.w = NULL)
           \/ /\ last_call'.fn = "lcd_ui_handle_touch"
              /\ last_call'.ctx = NULL )
         => /\ UNCHANGED <<widgets, widget_capacity, widget_count,
                           active_widget, touch_active, slider_value,
                           progress_percent, text_align, faulted>>
            /\ calls' = <<>>
      /\ ( /\ last_call'.fn = "touch_ui_process_input"
           /\ last_call'.ctx = NULL )
         => /\ event_result' = Event("touch_ui_event_none", sample'.x,
                                     sample'.y, sample'.timestamp)
            /\ UNCHANGED <<last_press_state, last_x_position,
                           last_y_position, last_press_timestamp_value>>
    ]_vars

\* a moved sample handed to a NULL context while a drag on a registered
\* widget is in progress: the event is none and nothing has moved
C17_Witness ==
  /\ last_call = LibCall("touch_ui_process_input", NULL, NULL)
  /\ last_press_state
  /\ sample.is_pressed
  /\ sample.x # last_x_position
  /\ event_result = Event("touch_ui_event_none", sample.x, sample.y,
                          sample.timestamp)
  /\ widget_count > 0
  /\ touch_active = 1
  /\ active_widget # NULL

\* the context after lcd_ui_handle_touch run to completion on context c
SeqTouch(c, a) ==
  IF a.is_pressed
  THEN IF c.touch_active = 0
       THEN [c EXCEPT !.touch_active = 1,
                      !.active_widget =
                        HitLoop(c.widgets, c.widget_count, 0, a.x, a.y)]
       ELSE c
  ELSE [c EXCEPT !.touch_active = 0, !.active_widget = NULL]

\* the context after the registry call op run to completion on context c
SeqReg(c, op) ==
  CASE op.fn = "lcd_ui_add_widget" ->
         IF c.widget_count >= widget_capacity THEN c
         ELSE [c EXCEPT !.widgets[c.widget_count] = op.w,
                        !.widget_count = c.widget_count + 1]
    [] op.fn = "lcd_ui_clear_widgets" ->
         [c EXCEPT !.widget_count = 0, !.widgets = ClearedSlots(c.widgets)]
    [] op.fn = "lcd_ui_render" -> c

BothReturned == pc_touch = "t_return" /\ pc_reg = "r_return" /\ ~faulted

\* C19: thread-safe usage.  With one task in lcd_ui_handle_touch and another
\* in lcd_ui_add_widget, lcd_ui_clear_widgets or lcd_ui_render on the same
\* context, interleaved read by read and write by write with no lock, the
\* hit-test loop never dereferences a NULL slot, and when both calls have
\* returned the context is the one that one of the two sequential orders of
\* the same calls produces.
C19_ThreadSafe ==
  /\ ~null_deref
  /\ BothReturned =>
       Ctx \in {SeqReg(SeqTouch(round_start, t_args), r_op),
                SeqTouch(SeqReg(round_start, r_op), t_args)}

\* the margin and the hit box as the claim states them
ClaimMargin(g) ==
  IF g.type = LCD_UI_WIDGET_BUTTON THEN 6
  ELSE IF g.type = LCD_UI_WIDGET_SLIDER THEN g.height \div 5
  ELSE 2
Max(a, b) == IF a > b THEN a ELSE b
ClaimHit(g, x, y) ==
  LET m == ClaimMargin(g)
  IN  /\ Max(0, g.x - m) <= x /\ x < g.x + g.width + m
      /\ Max(0, g.y - m) <= y /\ y < g.y + g.height + m
HitTested == hb_hit # "none"
LowerBoundsClamped ==
  LET m == MarginOf(hb_widget.type, hb_widget.height)
  IN  BoxLo(hb_widget.x, m) = Max(0, hb_widget.x - m)
      /\ BoxLo(hb_widget.y, m) = Max(0, hb_widget.y - m)
FarEdgesFit ==
  LET m == ClaimMargin(hb_widget)
  IN  /\ hb_widget.x + hb_widget.width + m < U16
      /\ hb_widget.y + hb_widget.height + m < U16

\* C21: a widget at (wx, wy) of size (w, h) is a hit exactly when
\* max(0, wx - m) <= x < wx + w + m and max(0, wy - m) <= y < wy + h + m,
\* with m = 6 for a button, height / 5 for a slider and 2 otherwise, and the
\* lower bounds never go below 0.
C21_HitBox ==
  HitTested =>
    /\ (hb_hit = "hit") <=> ClaimHit(hb_widget, hb_point[1], hb_point[2])
    /\ LowerBoundsClamped

\* C21 amended: the same for every widget whose far edges wx + w + m and
\* wy + h + m stay below 65536; the lower bounds are clamped at 0 for every
\* widget position.
C21_HitBoxNoWrap ==
  HitTested =>
    /\ FarEdgesFit =>
         ((hb_hit = "hit") <=> ClaimHit(hb_widget, hb_point[1], hb_point[2]))
    /\ LowerBoundsClamped

\* a slider nearer to the left edge than its margin, touched at x = 0
C21_Witness ==
  /\ hb_widget = Box(LCD_UI_WIDGET_SLIDER, 2, 7, 10, 14)
  /\ hb_point = <<0, 5>>
  /\ hb_hit = "hit"

\* the default slider handler has run to its end on slider w in this step
DefaultHandlerRuns(w) ==
  /\ calls' # <<>>
  /\ calls'[1] = Call("default_slider_touch_handler", w, calls'[1].a, calls'[1].b)
  /\ ~faulted'

\* C22: after every run of the default slider handler on a slider linked to
\* a progress bar, the bar's percent is 100 minus the slider's new value
\* (slider_value + progress_percent = 100); the run modifies no widget other
\* than the slider and the linked bar, and none but the slider when no bar
\* is linked.
C22_InverseLink ==
  [][ \A w \in Pool :
        DefaultHandlerRuns(w) =>
          LET linked == WidgetDef[w].user_data
          IN  /\ linked # NULL =>
                   /\ progress_percent'[linked] = 100 - slider_value'[w]
                   /\ slider_value'[w] + progress_percent'[linked] = 100
              /\ \A u \in Pool \ {w} : slider_value'[u] = slider_value[u]
              /\ \A u \in Pool \ {linked} :
                   progress_percent'[u] = progress_percent[u]
              /\ text_align' = text_align
    ]_vars

\* slider 2 dragged to the middle of its track: value 50, bar 4 at 50
C22_Witness ==
  /\ calls # <<>>
  /\ calls[1] = Call("default_slider_touch_handler", 2, 40, 25)
  /\ slider_value[2] = 50
  /\ progress_percent[4] = 50

\* a slider is latched after the press tick just made
SliderLatched == PressTick /\ IsType(active_widget, LCD_UI_WIDGET_SLIDER)
DefaultHandlerInvoked ==
  \E i \in DOMAIN calls : calls[i].cb = "default_slider_touch_handler"

\* C23: a custom touch callback on a slider overrides the default drag
\* behaviour.  On every press tick that leaves such a slider latched only the
\* custom callback is invoked and slider_value and every progress_percent
\* stay as they were; the default handler runs exactly on the press ticks
\* that leave a slider without a touch callback latched.
C23_CustomOverrides ==
  [][ /\ (SliderLatched' /\ WidgetDef[active_widget'].on_touch) =>
           /\ calls' = <<Call("on_touch", active_widget', last_op'.x, last_op'.y)>>
           /\ UNCHANGED <<slider_value, progress_percent>>
      /\ DefaultHandlerInvoked' <=>
           (SliderLatched' /\ ~WidgetDef[active_widget'].on_touch)
    ]_vars

\* slider 3 (custom callback, user data pointing at bar 4) dragged after
\* slider 2 has moved the bar: the drag reaches only the callback
C23_Witness ==
  /\ SliderLatched
  /\ active_widget = 3
  /\ last_op.was_active = 1
  /\ calls = <<Call("on_touch", 3, last_op.x, last_op.y)>>
  /\ slider_value[3] = 0
  /\ progress_percent[4] = 50

\* the step is an iteration of the poll loop with a successful read
PollTickOk == poll'.tick # poll.tick /\ poll'.read = "ok"

\* C24: every touch session completes.  When the engine has touch_active set
\* and an iteration of the poll loop reads a sample with pressed = false, the
\* engine is IDLE at the end of that iteration, whatever reads failed and
\* were skipped before it.
C24_SessionCompletes ==
  [][ (PollTickOk /\ touch_active = 1 /\ ~sample'.is_pressed)
        => (touch_active' = 0 /\ active_widget' = NULL) ]_vars

\* a drag on slider 2 ended by a release read; the release went on to the
\* engine
C24_Witness ==
  /\ poll.read = "ok"
  /\ poll.forwarded
  /\ ~sample.is_pressed
  /\ event_result.event_type = "touch_ui_event_released"
  /\ ReleaseTick
  /\ last_op.was_active = 1
  /\ last_op.was_widget = 2
  /\ touch_active = 0
  /\ active_widget = NULL

Flag(b) == IF b THEN 1 ELSE 0

\* C25: normalizer and dispatch engine stay in step.  In the poll loop, from
\* freshly initialised contexts, the engine's touch_active equals the
\* normalizer's last_press_state after every iteration.
C25_InStep == touch_active = Flag(last_press_state)

\* a pressed sample that repeats the position of the one before: the event
\* is none, nothing is handed on, and both sides still hold the press
C25_Witness ==
  /\ poll.read = "ok"
  /\ ~poll.forwarded
  /\ sample.is_pressed
  /\ last_press_state
  /\ touch_active = 1
  /\ active_widget = 2

Registered(w) == \E i \in 0..(widget_count - 1) : widgets[i] = w

\* C26: the active widget is always a registered widget.  In every state
\* reached by lcd_ui_add_widget, lcd_ui_clear_widgets, lcd_ui_reset_screen
\* and lcd_ui_handle_touch calls, active_widget, when not NULL, is in a slot
\* below widget_count, and every callback of the last call went to a widget
\* in such a slot.
C26_ActiveRegistered ==
  /\ active_widget # NULL => Registered(active_widget)
  /\ PressTick => \A i \in DOMAIN calls : Registered(calls[i].w)

\* C27: registry well-formedness.  After any sequence of lcd_ui_init,
\* lcd_ui_add_widget and lcd_ui_clear_widgets calls every slot below
\* widget_count holds a widget, the slots 0..widget_count-1 hold the accepted
\* widgets in the order they were added since the registry was last emptied,
\* and an accepted add changes only the slot at the old widget_count.
C27_WellFormed ==
  /\ [](/\ \A i \in 0..(widget_count - 1) : widgets[i] # NULL
        /\ widget_count = Len(added)
        /\ \A i \in 1..Len(added) : widgets[i - 1] = added[i])
  /\ [][(last_op'.op = "add" /\ widget_count' # widget_count)
          => /\ widget_count' = widget_count + 1
             /\ widgets'[widget_count] = last_op'.w
             /\ \A i \in DOMAIN widgets \ {widget_count} :
                  widgets'[i] = widgets[i]]_vars

\* the label and then the button were accepted into an empty registry
C27_Witness ==
  /\ added = <<5, 1>>
  /\ widget_count = 2
  /\ widgets[0] = 5
  /\ widgets[1] = 1
  /\ AddAccepted

\* C28: a touch session that began over empty space never latches a widget.
\* A press tick made while touch_active is set and no widget is latched
\* leaves active_widget NULL and invokes no callback, wherever the finger
\* is; active_widget goes from NULL to a widget only on a tick that found
\* touch_active clear, that is after a release.
C28_EmptySessionStaysEmpty ==
  [][ /\ (PressTick' /\ touch_active = 1 /\ active_widget = NULL)
           => (active_widget' = NULL /\ touch_active' = 1 /\ calls' = <<>>)
      /\ (active_widget = NULL /\ active_widget' # NULL)
           => (PressTick' /\ touch_active = 0)
    ]_vars

\* the session began outside every widget and the finger has moved into the
\* box of a registered one
C28_Witness ==
  /\ PressTick
  /\ last_op.was_active = 1
  /\ last_op.was_widget = NULL
  /\ HitIndices(last_op.x, last_op.y) # {}
  /\ touch_active = 1
  /\ active_widget = NULL
  /\ calls = <<>>

\* C29: lcd_ui_add_widget stays inside the registry.  At every fill level
\* and for every text_align of the added widget, an accepted add reads and
\* writes only slots below widget_capacity, dereferences only widget
\* references that are not NULL, and modifies no widget but the one passed
\* in.
C29_AddInBounds ==
  [][ (last_op'.op = "add" /\ widget_count' # widget_count) =>
        /\ text_align[last_op'.w] > LCD_UI_ALIGN_RIGHT =>
             /\ AlignSlot(widget_count') < widget_capacity
             /\ widgets'[AlignSlot(widget_count')] # NULL
        /\ ~faulted'
        /\ \A u \in Pool \ {last_op'.w} : text_align'[u] = text_align[u]
    ]_vars

\* C30: event ordering of the normalizer.  Over any sequence of samples from
\* the initial state the non-none events alternate between pressed and
\* released, starting with pressed, and every moved event comes after a
\* pressed event with no released event in between.
C30_EventOrder ==
  [][ /\ event_result'.event_type = "touch_ui_event_pressed" => ev_phase = "up"
      /\ event_result'.event_type = "touch_ui_event_released" => ev_phase = "down"
      /\ event_result'.event_type = "touch_ui_event_moved" => ev_phase = "down"
    ]_vars

\* a moved event while the press that began at timestamp 1 is down
C30_Witness ==
  /\ event_result.event_type = "touch_ui_event_moved"
  /\ ev_phase = "down"
  /\ last_press_timestamp_value = 1
  /\ sample.timestamp = 0

====
